---- MODULE Spec2Model ----
(***************************************************************************)
(* Model of the ASL (layer style / pattern) reader, kis_asl_reader.cpp.    *)
(*                                                                         *)
(* The input file is a byte stream.  Its bytes are drawn when the reader   *)
(* first looks at them and are remembered in dev.mem, so that a second     *)
(* read of the same offset (after a backward seek) sees the same bytes.    *)
(* The length of the file is fixed at the first read that runs past it.    *)
(***************************************************************************)
EXTENDS Integers, Sequences, FiniteSets, TLC

VARIABLES
    family,      \* which family of input files is being enumerated
    pc,          \* position of the reader in readFile / readFileImpl / readPattern
    dev,         \* the QIODevice: cursor, bytes seen so far, size when known
    nodes,       \* the QDomDocument under construction (elements below <asl>)
    stack,       \* open readDescriptor / VlLs loops, innermost last
    top,         \* readFileImpl locals
    pat,         \* readPattern / readVirtualArrayList locals
    call,        \* what the step just taken read and did
    err,         \* the ASLParseException in flight or caught
    retDoc       \* the QDomDocument of KisAslReader::readFile

vars == <<family, pc, dev, nodes, stack, top, pat, call, err, retDoc>>

----------------------------------------------------------------------------
(* Bounds of the enumeration *)

MaxSize == 260        \* longest file, in bytes
MaxChildren == 2      \* largest child / item count drawn for a descriptor or list
MaxValues == 2        \* most tagged values drawn for one file
MaxDim == 2           \* largest width and height drawn for a pattern

(* Program constants *)

GARBAGE_VALUE_MARK == 999
StylesVersion == 2
RefSignature == 943870796        \* 0x3842534c
PatternsVersion == 3
StylesFormatVersion == 16

(* Integers of the program.  A quint32 is held as the 32-bit two's         *)
(* complement integer with the same bits (0xFFFFFFFF is -1), which is also *)
(* the value its conversion to int yields.  A qint64 (a stream offset, a   *)
(* byte total) is held exactly below Far; Far stands for every value from  *)
(* there on, all of them past the end of any file enumerated.              *)
Far == 2 ^ 30
U32Max == 0 - 1

IsBig(u) == u < 0
ULess(a, u) == IF IsBig(u) THEN TRUE ELSE a < u
AddOff(a, u) == IF IsBig(u) \/ a >= Far \/ a + u >= Far THEN Far ELSE a + u

Max(a, b) == IF a > b THEN a ELSE b
Min(a, b) == IF a < b THEN a ELSE b

----------------------------------------------------------------------------
(* Text.  A string is the sequence of its character codes. *)

S_Objc == <<79, 98, 106, 99>>
S_GlbO == <<71, 108, 98, 79>>
S_VlLs == <<86, 108, 76, 115>>
S_doub == <<100, 111, 117, 98>>
S_UntF == <<85, 110, 116, 70>>
S_TEXT == <<84, 69, 88, 84>>
S_enum == <<101, 110, 117, 109>>
S_long == <<108, 111, 110, 103>>
S_bool == <<98, 111, 111, 108>>
S_obj  == <<111, 98, 106, 32>>
S_type == <<116, 121, 112, 101>>
S_GlbC == <<71, 108, 98, 67>>
S_alis == <<97, 108, 105, 115>>
S_tdta == <<116, 100, 116, 97>>
S_XXXX == <<88, 88, 88, 88>>
S_Nm   == <<78, 109, 32, 32>>
S_Idnt == <<73, 100, 110, 116>>
S_Data == <<68, 97, 116, 97>>
S_Patterns == <<80, 97, 116, 116, 101, 114, 110, 115>>
S_KisPattern == <<75, 105, 115, 80, 97, 116, 116, 101, 114, 110>>
S_null == <<110, 117, 108, 108>>
S_Pxl  == <<35, 80, 120, 108>>
Empty  == <<>>

NoAttr == <<-1>>      \* an attribute the element does not carry


----------------------------------------------------------------------------
(* The device *)

NoByte == 0 - 1      \* a byte of the file the reader has not looked at
Unknown == 0 - 1     \* the length of a file whose end was not met

BytesBE(v, n) == [i \in 1..n |-> (v \div (256 ^ (n - i))) % 256]

FromBE(s) ==
    IF Len(s) = 1 THEN s[1]
    ELSE IF Len(s) = 2 THEN 256 * s[1] + s[2]
    ELSE (IF s[1] >= 128 THEN s[1] - 256 ELSE s[1]) * 16777216
         + s[2] * 65536 + s[3] * 256 + s[4]

KnownAt(d, o) == o < Len(d.mem) /\ d.mem[o + 1] # NoByte
AllKnown(d, n) == \A i \in 0..(n - 1) : KnownAt(d, d.pos + i)
Stored(d, n) == [i \in 1..n |-> d.mem[d.pos + i]]
Consistent(d, s) == \A i \in 1..Len(s) : KnownAt(d, d.pos + i - 1) => d.mem[d.pos + i] = s[i]
Store(d, s) ==
    LET n == Len(s)
        newLen == Max(Len(d.mem), d.pos + n)
    IN  [i \in 1..newLen |->
            IF i > d.pos /\ i <= d.pos + n THEN s[i - d.pos]
            ELSE IF i <= Len(d.mem) THEN d.mem[i] ELSE NoByte]

(* The families of files enumerated. *)
Families == {"scalar", "nested", "fatal", "gray", "rgb", "pair"}
WithPatterns == family = "gray" \/ family = "rgb" \/ family = "pair"

(* The file length a read at the cursor discovers when it runs past the   *)
(* end: the shortest file consistent with what was read so far.  The files *)
(* with patterns end in their patterns or are complete.                    *)
EofCands(d, n) ==
    IF WithPatterns /\ (pc = "numStyles" \/ pc = "stylesFormatVersion" \/ pc = "readDescriptor")
    THEN {}
    ELSE {Len(d.mem)}

(* QIODevice::read(maxSize): the outcomes of asking for n bytes.  cands    *)
(* are the byte strings drawn for bytes not seen before.                   *)
deviceRead(d, n, cands) ==
    LET full ==
            IF n > MaxSize THEN {}
            ELSE {[got |-> n, bytes |-> s,
                   d |-> [d EXCEPT !.pos = d.pos + n, !.mem = Store(d, s)]] :
                  s \in IF AllKnown(d, n) THEN {Stored(d, n)}
                        ELSE {c \in cands : Len(c) = n /\ Consistent(d, c)}}
        short(sz) == [got |-> Max(0, sz - d.pos), bytes |-> <<>>,
                      d |-> [d EXCEPT !.pos = Max(d.pos, sz), !.size = sz]]
    IN  IF n = 0 THEN {[got |-> 0, bytes |-> <<>>, d |-> d]}
        ELSE IF d.size # Unknown
        THEN IF d.pos + n <= d.size THEN full ELSE {short(d.size)}
        ELSE (IF d.pos + n <= MaxSize THEN full ELSE {})
             \cup {short(sz) : sz \in {z \in EofCands(d, n) : z < d.pos + n}}

deviceSeek(d, target) == [d EXCEPT !.pos = target]

(* psdread of an n-byte unsigned integer; V are the values drawn. *)
psdread(d, n, V) ==
    {[ok |-> r.got = n, val |-> IF r.got = n THEN FromBE(r.bytes) ELSE GARBAGE_VALUE_MARK, d |-> r.d] :
        r \in deviceRead(d, n, {BytesBE(v, n) : v \in V})}

----------------------------------------------------------------------------
(* The files enumerated: what is drawn for each field not seen before *)


VarLenCands == {U32Max, 0, 8}      \* length prefixes of variable strings
KeyLenCands == IF family = "nested" THEN {0, 8} ELSE {0}
UnicodeCountCands == {0, 1}
NameCountCands == IF family = "scalar" THEN {0, 1} ELSE {0}
TagCands ==
    IF family = "scalar" THEN {S_TEXT, S_UntF, S_bool, S_doub, S_enum, S_long}
    ELSE IF family = "nested" THEN {S_GlbO, S_Objc, S_VlLs, S_XXXX, S_long}
    ELSE IF family = "fatal" THEN {S_GlbC, S_VlLs, S_alis, S_long, S_obj, S_tdta, S_type}
    ELSE {S_long}

StrCands(n) ==
    IF n = 4 THEN {S_Nm}
    ELSE IF n = 8 THEN {S_Patterns}
    ELSE IF n = 1 THEN {<<117>>}
    ELSE IF n = 2 THEN {<<0, 65>>}
    ELSE IF n <= MaxSize THEN {[i \in 1..n |-> 97]}
    ELSE {}

(* Child and item counts: at most MaxChildren, and never more tagged       *)
(* values in the whole file than MaxValues.                                 *)
RECURSIVE Promised(_)
Promised(st) == IF st = <<>> THEN 0
                ELSE IF IsBig(st[1].n) \/ st[1].n > MaxValues THEN MaxValues + 1
                ELSE Max(0, st[1].n - st[1].i - 1) + Promised(Tail(st))
CountCands(used, st) ==
    IF WithPatterns THEN {0}
    ELSE {c \in 0..MaxChildren : used + Promised(st) + c <= MaxValues}

----------------------------------------------------------------------------
(* String fetch functions *)

ToInt(u) == u

(* QString(const QByteArray &): the text ends at the first NUL byte. *)
ToQString(bytes) ==
    LET nul == {i \in 1..Len(bytes) : bytes[i] = 0}
    IN  IF nul = {} THEN bytes
        ELSE SubSeq(bytes, 1, (CHOOSE i \in nul : \A j \in nul : i <= j) - 1)

(* length is the C++ int the caller's value converts to.  QIODevice::read  *)
(* with a negative maxSize reads nothing and returns -1.                   *)
readStringCommon(d, length) ==
    IF length < 0
    THEN {[ok |-> (-1 = length), val |-> Empty, d |-> d]}
    ELSE {[ok |-> (r.got = length),
           val |-> IF r.got = length THEN ToQString(r.bytes) ELSE Empty,
           d |-> r.d] : r \in deviceRead(d, length, StrCands(length))}

readFixedStringOf(d, cands) ==
    {[ok |-> (r.got = 4),
      val |-> IF r.got = 4 THEN ToQString(r.bytes) ELSE Empty,
      d |-> r.d] : r \in deviceRead(d, 4, cands)}

readFixedString(d) == readFixedStringOf(d, StrCands(4))

(* Each outcome carries rec, the record of the call: the prefix read, the  *)
(* bytes consumed after it, and whether the call returned or threw.        *)
readVarString(d, L) ==
    UNION {
        IF ~r.ok
        THEN {[ok |-> FALSE, val |-> Empty, d |-> r.d,
               rec |-> [prefixRead |-> FALSE, prefix |-> 0, consumed |-> 0,
                        returned |-> FALSE, str |-> Empty, eof |-> TRUE]]}
        ELSE LET length == IF r.val = 0 THEN 4 ELSE r.val
             IN  {[ok |-> s.ok, val |-> s.val, d |-> s.d,
                   rec |-> [prefixRead |-> TRUE, prefix |-> r.val,
                            consumed |-> s.d.pos - r.d.pos,
                            returned |-> s.ok, str |-> s.val,
                            eof |-> s.d.size # Unknown]]
                  : s \in readStringCommon(r.d, ToInt(length))}
        : r \in psdread(d, 4, L)}

readPascalString(d, L) ==
    UNION {
        IF ~r.ok THEN {[ok |-> FALSE, val |-> Empty, d |-> r.d]}
        ELSE readStringCommon(r.d, r.val)
        : r \in psdread(d, 1, L)}

(* psdread_unicodestring: a 4-byte count, then that many UTF-16 units. *)
psdread_unicodestringOf(d, C) ==
    UNION {
        IF ~r.ok THEN {[ok |-> FALSE, val |-> Empty, d |-> r.d]}
        ELSE LET n == IF IsBig(r.val) \/ r.val > MaxSize THEN Far ELSE 2 * r.val
             IN  {[ok |-> (s.got = n),
                   val |-> IF s.got = n THEN s.bytes ELSE Empty,
                   d |-> s.d] : s \in deviceRead(r.d, n, StrCands(n))}
        : r \in psdread(d, 4, C)}

psdread_unicodestring(d) == psdread_unicodestringOf(d, UnicodeCountCands)

readUnicodeStringOf(d, C) == psdread_unicodestringOf(d, C)
readUnicodeString(d) == readUnicodeStringOf(d, UnicodeCountCands)

----------------------------------------------------------------------------
(* Numerical fetch functions *)

(* The decimal digits of the unsigned value of v. *)
RECURSIVE numberToString(_)
numberToString(v) ==
    IF IsBig(v)
    THEN LET a == (v + 2147483647) + 1       \* the value less 2^31
             r == (a % 10) + 8
         IN  numberToString((a \div 10) + 214748364 + (r \div 10)) \o <<48 + (r % 10)>>
    ELSE IF v < 10 THEN <<48 + v>>
    ELSE numberToString(v \div 10) \o <<48 + (v % 10)>>

(* The text of a double: "0" for +0.0, "1" for 1.0, and for any other bit  *)
(* pattern a text that stands for exactly that pattern.                    *)
doubleToString(bytes) ==
    IF bytes = <<0, 0, 0, 0, 0, 0, 0, 0>> THEN <<48>>
    ELSE IF bytes = <<63, 240, 0, 0, 0, 0, 0, 0>> THEN <<49>>
    ELSE <<-2>> \o bytes

DoubleCands == {<<0, 0, 0, 0, 0, 0, 0, 0>>}

readDoubleAsString(d) ==
    {[ok |-> (r.got = 8),
      val |-> IF r.got = 8 THEN doubleToString(r.bytes) ELSE Empty,
      d |-> r.d] : r \in deviceRead(d, 8, DoubleCands)}

readIntAsString(d) ==
    {[ok |-> r.ok, val |-> IF r.ok THEN numberToString(r.val) ELSE Empty, d |-> r.d]
        : r \in psdread(d, 4, {7})}

readBoolAsString(d) ==
    {[ok |-> r.ok, val |-> IF r.ok THEN numberToString(r.val) ELSE Empty, d |-> r.d]
        : r \in psdread(d, 1, {1})}

----------------------------------------------------------------------------
(* XML generation functions.  An element is a record; the document is the  *)
(* sequence of its elements in the order they were created; parent 0 is    *)
(* the root element <asl>, parent -1 an element not attached yet.          *)

Detached == 0 - 1

Element(parent, key, type, off) ==
    [parent |-> parent,
     key |-> IF key = Empty THEN NoAttr ELSE key,
     type |-> type, value |-> NoAttr, classId |-> NoAttr, name |-> NoAttr,
     unit |-> NoAttr, typeId |-> NoAttr, data |-> NoAttr,
     declared |-> -1, calls |-> 0, off |-> off]

appendXMLNodeCommon(key, value, type, parent, off) ==
    [Element(parent, key, type, off) EXCEPT !.value = value]

(* A variant that gives every element the key "Patterns". *)
appendXMLNodeCommonNoValue_keyed(key, type, parent, off) ==
    Element(parent, S_Patterns, type, off)

appendXMLNodeCommonNoValue(key, type, parent, off) ==
    Element(parent, key, type, off)

Children(ns, p) == {i \in 1..Len(ns) : ns[i].parent = p}

----------------------------------------------------------------------------
(* ASL -> XML parsing functions *)

ClassLenCands == {0}

NoRec == <<>>

(* What a call of readChildObject, or of readDescriptor up to its loop,    *)
(* comes to: it returned ("ok"), threw ASLParseException ("throw") or      *)
(* ended the process in qFatal ("fatal").  new holds the element appended  *)
(* to the parent, if any; count the declared number of children or items   *)
(* of a Descriptor or List element whose loop is to run.                   *)
Outcome(status, d, new, kind, count, tag, key, vs, what) ==
    [status |-> status, d |-> d, new |-> new, kind |-> kind, count |-> count,
     tag |-> tag, key |-> key, vs |-> vs, what |-> what]

Throw(d, tag, key, vs, what) == Outcome("throw", d, <<>>, "", -1, tag, key, vs, what)

(* A variant in which qFatal returns to its caller. *)
qFatal_returns(d, tag, key, vs) == Outcome("ok", d, <<>>, "", -1, tag, key, vs, "")

(* qFatal("... no implemented"): the process ends. *)
qFatal(d, tag, key, vs) == Outcome("fatal", d, <<>>, "", -1, tag, key, vs, "no implemented")

readDescriptor(d, key, parent, used, st, tag, vs, off) ==
    UNION {
        IF ~a.ok THEN {Throw(a.d, tag, key, vs, "unicode string")}
        ELSE UNION {
            IF ~b.ok
            THEN {Throw(b.d, tag, key, vs \o <<b.rec>>,
                        IF b.rec.prefixRead THEN "string" ELSE "length")}
            ELSE {IF ~c.ok
                  THEN Throw(c.d, tag, key, vs \o <<b.rec>>, "numChildren")
                  ELSE Outcome("ok", c.d,
                          <<[appendXMLNodeCommonNoValue(key, "Descriptor", parent, off)
                                EXCEPT !.classId = b.val, !.name = a.val,
                                       !.declared = c.val]>>,
                          "Descriptor", c.val, tag, key, vs \o <<b.rec>>, "")
                  : c \in psdread(b.d, 4, CountCands(used, st))}
            : b \in readVarString(a.d, ClassLenCands)}
        : a \in readUnicodeStringOf(d, NameCountCands)}

(* The dispatch of readChildObject on the type tag, the key being read. *)
readTaggedValue(d, key, OSType, parent, used, st, vs, off) ==
    IF OSType = S_obj THEN
        {qFatal(d, OSType, key, vs)}
    ELSE IF OSType = S_Objc \/ OSType = S_GlbO THEN
        readDescriptor(d, key, parent, used, st, OSType, vs, off)
    ELSE IF OSType = S_VlLs THEN
        {IF ~n.ok THEN Throw(n.d, OSType, key, vs, "numItems")
         ELSE Outcome("ok", n.d,
                 <<[appendXMLNodeCommonNoValue(key, "List", parent, off)
                        EXCEPT !.declared = n.val]>>,
                 "List", n.val, OSType, key, vs, "")
         : n \in psdread(d, 4, CountCands(used, st))}
    ELSE IF OSType = S_doub THEN
        {IF ~v.ok THEN Throw(v.d, OSType, key, vs, "value")
         ELSE Outcome("ok", v.d, <<appendXMLNodeCommon(key, v.val, "Double", parent, off)>>,
                      "", -1, OSType, key, vs, "")
         : v \in readDoubleAsString(d)}
    ELSE IF OSType = S_UntF THEN
        UNION {
            IF ~u.ok THEN {Throw(u.d, OSType, key, vs, "string")}
            ELSE {IF ~v.ok THEN Throw(v.d, OSType, key, vs, "value")
                  ELSE Outcome("ok", v.d,
                          <<[appendXMLNodeCommon(key, v.val, "UnitFloat", parent, off)
                                EXCEPT !.unit = u.val]>>,
                          "", -1, OSType, key, vs, "")
                  : v \in readDoubleAsString(u.d)}
            : u \in readFixedStringOf(d, {S_Pxl})}
    ELSE IF OSType = S_TEXT THEN
        {IF ~v.ok THEN Throw(v.d, OSType, key, vs, "unicode string")
         ELSE Outcome("ok", v.d, <<appendXMLNodeCommon(key, v.val, "Text", parent, off)>>,
                      "", -1, OSType, key, vs, "")
         : v \in readUnicodeString(d)}
    ELSE IF OSType = S_enum THEN
        UNION {
            IF ~t.ok
            THEN {Throw(t.d, OSType, key, vs \o <<t.rec>>,
                        IF t.rec.prefixRead THEN "string" ELSE "length")}
            ELSE {IF ~v.ok
                  THEN Throw(v.d, OSType, key, vs \o <<t.rec, v.rec>>,
                             IF v.rec.prefixRead THEN "string" ELSE "length")
                  ELSE Outcome("ok", v.d,
                          <<[appendXMLNodeCommon(key, v.val, "Enum", parent, off)
                                EXCEPT !.typeId = t.val]>>,
                          "", -1, OSType, key, vs \o <<t.rec, v.rec>>, "")
                  : v \in readVarString(t.d, {0})}
            : t \in readVarString(d, VarLenCands)}
    ELSE IF OSType = S_long THEN
        {IF ~v.ok THEN Throw(v.d, OSType, key, vs, "value")
         ELSE Outcome("ok", v.d, <<appendXMLNodeCommon(key, v.val, "Integer", parent, off)>>,
                      "", -1, OSType, key, vs, "")
         : v \in readIntAsString(d)}
    ELSE IF OSType = S_bool THEN
        {IF ~v.ok THEN Throw(v.d, OSType, key, vs, "value")
         ELSE Outcome("ok", v.d, <<appendXMLNodeCommon(key, v.val, "Boolean", parent, off)>>,
                      "", -1, OSType, key, vs, "")
         : v \in readBoolAsString(d)}
    ELSE IF OSType = S_type \/ OSType = S_GlbC \/ OSType = S_alis \/ OSType = S_tdta THEN
        {qFatal(d, OSType, key, vs)}
    ELSE
        {Outcome("ok", d, <<>>, "", -1, OSType, key, vs, "")}

readChildObject(d, parent, skipKey, used, st) ==
    UNION {
        IF ~k.ok
        THEN {Throw(k.d, Empty, Empty, k.log,
                    IF k.log # <<>> /\ k.log[1].prefixRead THEN "string" ELSE "length")}
        ELSE UNION {
            IF ~t.ok THEN {Throw(t.d, Empty, k.val, k.log, "string")}
            ELSE readTaggedValue(t.d, k.val, t.val, parent, used, st, k.log, d.pos)
            : t \in readFixedStringOf(k.d, TagCands)}
        : k \in IF skipKey
                THEN {[ok |-> TRUE, val |-> Empty, d |-> d, log |-> <<>>]}
                ELSE {[ok |-> r.ok, val |-> r.val, d |-> r.d, log |-> <<r.rec>>]
                        : r \in readVarString(d, KeyLenCands)}}

----------------------------------------------------------------------------
(* Offset verifier (kis_offset_on_exit_verifier.h): set up with the length *)
(* of a section, it holds the offset at which the section ends; when its   *)
(* scope is left with the cursor elsewhere, it seeks there.                *)

SETUP_OFFSET_VERIFIER(d, expectedOffset) == AddOff(d.pos, expectedOffset)

offsetVerifierExit(d, expectedPos) ==
    IF d.pos # expectedPos THEN deviceSeek(d, expectedPos) ELSE d

(* The scopes left, innermost first. *)
RECURSIVE ExitScopes(_, _)
ExitScopes(d, ends) ==
    IF ends = <<>> THEN d
    ELSE ExitScopes(offsetVerifierExit(d, ends[1]), Tail(ends))

----------------------------------------------------------------------------
(* Pattern records: what is drawn for their fields *)

\* psd_color_mode and Compression::CompressionType are declared outside this
\* file; the readers dispatch on the names, the numbers are the stream encoding.
Bitmap == 0
Grayscale == 1
RGB == 3
MultiChannel == 7
Uncompressed == 0
RLE == 1
ZIP == 2
NumberOfChannels == 24
PixelDepth == 8
ArrayVersion == 3
PatternVersion == 1

HeadLen == 4 + 4 + 2 + 2 + 4 + 2     \* a pattern record up to its raster data, the name empty
VAHeadLen == 4 + 4 + 16 + 4          \* a virtual array list up to its first plane
PlaneHeadLen == 4 + 16 + 2 + 1        \* a plane from its depth field up to its data
GrayLen == HeadLen + VAHeadLen + 8 + PlaneHeadLen + 1        \* 1 plane of 1 pixel
RGBLen == HeadLen + VAHeadLen + 3 * (8 + PlaneHeadLen + 1)

(* The family "gray" holds the files of one pattern of one plane, "rgb"   *)
(* those of one pattern of three planes or of a multichannel one, "pair"   *)
(* those of two patterns of one pixel.                                     *)
Plain == family = "pair"
PatternSizeCands ==
    IF family = "rgb" THEN {RGBLen} ELSE IF Plain THEN {GrayLen} ELSE {U32Max, 0, GrayLen}
PatternVersionCands == {PatternVersion, 2}
ImageModeCands ==
    IF family = "rgb" THEN {RGB, MultiChannel}
    ELSE IF Plain THEN {Grayscale} ELSE {Bitmap, Grayscale}
DimCands == IF Plain THEN {1} ELSE 1..MaxDim
ArrayVersionCands == IF Plain THEN {ArrayVersion} ELSE {2, ArrayVersion}
ArrayLengthCands == {VAHeadLen - 8 + 8 + PlaneHeadLen + 1}
ChannelsCands == IF Plain THEN {NumberOfChannels} ELSE {3, NumberOfChannels}
WrittenCands == IF Plain THEN {1} ELSE {0, 1}
PlaneLengthCands(n) == IF Plain THEN {PlaneHeadLen + n} ELSE {0, PlaneHeadLen + n}
PlaneHeightCands(h) == IF Plain THEN {h} ELSE {h, h + 1}
DepthCands == IF Plain THEN {PixelDepth} ELSE {PixelDepth, 16}
CompressionCands ==
    IF family = "gray" THEN {Uncompressed, RLE, ZIP}
    ELSE IF family = "rgb" THEN {Uncompressed, ZIP}
    ELSE {Uncompressed}
PixelCands(plane, n) == {[k \in 1..n |-> 10 * k + plane]}
RowSizeCands == {2, 3}
RleCands(n, w) ==
    IF n = 2 THEN {<<0, 10>>, <<255, 10>>} \cup {<<257 - w, 10>> : x \in {w} \cap 2..128}
    ELSE IF n = 3 THEN {<<1, 10, 20>>}
    ELSE {}

----------------------------------------------------------------------------
(* Integer arithmetic of the raster decoder *)

(* a - b in quint32. *)
Sub32(a, b) ==
    LET lo == (a % 65536) - (b % 65536)
        borrow == IF lo < 0 THEN 1 ELSE 0
        hi == ((a \div 65536) - (b \div 65536) - borrow) % 65536
    IN  (IF hi >= 32768 THEN hi - 65536 ELSE hi) * 65536 + lo + 65536 * borrow

(* The product of two ints; InIntRange says whether it is one. *)
InIntRange(w, h) ==
    \/ w = 0 \/ h = 0
    \/ (w >= -46340 /\ w <= 46340 /\ h >= -46340 /\ h <= 46340)
IntMul(w, h) == IF w = 0 \/ h = 0 THEN 0 ELSE IF InIntRange(w, h) THEN w * h ELSE Far

(* QRect(x0, y0, x1 - x0, y1 - y0) *)
QRect(x0, y0, x1, y1) == [x |-> x0, y |-> y0, w |-> Sub32(x1, x0), h |-> Sub32(y1, y0)]

(* KisAslWriterUtils::alignOffsetCeil(pos, 4), stored back into a quint32. *)
alignOffsetCeil(patternSize) ==
    IF patternSize > 2147483644 THEN (0 - 2147483647) - 1
    ELSE ((patternSize + 3) \div 4) * 4

----------------------------------------------------------------------------
(* Runs of SAFE_READ_EX: the fields fs, each [n, V], read one after the    *)
(* other up to the first that cannot be read.                              *)

Field(n, V) == [n |-> n, V |-> V]

RECURSIVE ReadFields(_, _)
ReadFields(d, fs) ==
    IF fs = <<>> THEN {[ok |-> TRUE, vals |-> <<>>, d |-> d]}
    ELSE UNION {
        IF ~r.ok THEN {[ok |-> FALSE, vals |-> <<>>, d |-> r.d]}
        ELSE {[ok |-> t.ok, vals |-> IF t.ok THEN <<r.val>> \o t.vals ELSE <<>>, d |-> t.d]
                : t \in ReadFields(r.d, Tail(fs))}
        : r \in psdread(d, fs[1].n, fs[1].V)}

----------------------------------------------------------------------------
(* Compression::uncompress(width, bytes, RLE): PackBits.  The result is    *)
(* the expansion when it has the length asked for, and empty otherwise.    *)

RECURSIVE PackBits(_)
PackBits(c) ==
    IF c = <<>> THEN [ok |-> TRUE, bytes |-> <<>>]
    ELSE LET n == c[1]
         IN  IF n = 128 THEN PackBits(Tail(c))
             ELSE IF n < 128
             THEN IF Len(c) < n + 2 THEN [ok |-> FALSE, bytes |-> <<>>]
                  ELSE LET rest == PackBits(SubSeq(c, n + 3, Len(c)))
                       IN  [ok |-> rest.ok, bytes |-> SubSeq(c, 2, n + 2) \o rest.bytes]
             ELSE IF Len(c) < 2 THEN [ok |-> FALSE, bytes |-> <<>>]
                  ELSE LET rest == PackBits(SubSeq(c, 3, Len(c)))
                       IN  [ok |-> rest.ok,
                            bytes |-> [k \in 1..(257 - n) |-> c[2]] \o rest.bytes]

uncompress(width, compressedData) ==
    LET out == PackBits(compressedData)
    IN  IF out.ok /\ Len(out.bytes) = width THEN out.bytes ELSE <<>>

----------------------------------------------------------------------------
(* readVirtualArrayList *)

(* An outcome of a part of readPattern: ok, or an ASLParseException (what) *)
(* thrown with the verifier scopes `scopes` open, innermost first.         *)
PThrow(d, what, scopes) == [ok |-> FALSE, d |-> d, what |-> what, scopes |-> scopes]

(* From the array version to the check of the plane count. *)
readVirtualArrayListHead(d, numPlanes, outer) ==
    UNION {
        IF ~v.ok THEN {PThrow(v.d, "arrayVersion", outer)}
        ELSE IF v.val # ArrayVersion THEN {PThrow(v.d, "VAList version", outer)}
        ELSE UNION {
            IF ~l.ok THEN {PThrow(l.d, "arrayLength", outer)}
            ELSE LET vaEnd == SETUP_OFFSET_VERIFIER(l.d, l.val)
                     scopes == <<vaEnd>> \o outer
                 IN  {IF ~f.ok THEN PThrow(f.d, "read", scopes)
                      ELSE IF f.vals[5] # NumberOfChannels
                      THEN PThrow(f.d, "numberOfChannels", scopes)
                      ELSE IF numPlanes # 1 /\ numPlanes # 3
                      THEN PThrow(f.d, "number of planes", scopes)
                      ELSE [ok |-> TRUE, d |-> f.d, what |-> "", scopes |-> scopes,
                            vaEnd |-> vaEnd,
                            arrayRect |-> QRect(f.vals[2], f.vals[1], f.vals[4], f.vals[3])]
                      : f \in ReadFields(l.d, <<Field(4, {0}), Field(4, {0}),
                                               Field(4, DimCands), Field(4, DimCands),
                                               Field(4, ChannelsCands)>>)}
            : l \in psdread(v.d, 4, ArrayLengthCands)}
        : v \in psdread(d, 4, ArrayVersionCands)}

(* A variant that takes whatever a row expands to, cut or filled with 0 to *)
(* the width, without the two tests of the row.                            *)
RECURSIVE readRows_unchecked(_, _, _, _)
readRows_unchecked(d, rowSizes, width, scopes) ==
    IF rowSizes = <<>> THEN {[ok |-> TRUE, d |-> d, what |-> "", scopes |-> scopes, bytes |-> <<>>]}
    ELSE UNION {
        LET out == PackBits(c.bytes).bytes
            uncompressedData == [k \in 1..Max(width, 0) |-> IF k <= Len(out) THEN out[k] ELSE 0]
        IN  {IF ~t.ok THEN t
             ELSE [t EXCEPT !.bytes = uncompressedData \o t.bytes]
             : t \in readRows_unchecked(c.d, Tail(rowSizes), width, scopes)}
        : c \in deviceRead(d, rowSizes[1], RleCands(rowSizes[1], width))}

(* The rows of a run-length plane, the row sizes being read: the outcomes  *)
(* are the plane's bytes, or the exception.                                *)
RECURSIVE readRows(_, _, _, _)
readRows(d, rowSizes, width, scopes) ==
    IF rowSizes = <<>> THEN {[ok |-> TRUE, d |-> d, what |-> "", scopes |-> scopes, bytes |-> <<>>]}
    ELSE UNION {
        IF c.got # rowSizes[1] THEN {PThrow(c.d, "compressed data", scopes)}
        ELSE LET uncompressedData == uncompress(width, c.bytes)
             IN  IF Len(uncompressedData) # width
                 THEN {PThrow(c.d, "decompress", scopes)}
                 ELSE {IF ~t.ok THEN t
                       ELSE [t EXCEPT !.bytes = uncompressedData \o t.bytes]
                       : t \in readRows(c.d, Tail(rowSizes), width, scopes)}
        : c \in deviceRead(d, rowSizes[1], RleCands(rowSizes[1], width))}

(* A variant that tests the 32-bit depth only. *)
depthError_single(pixelDepth1, pixelDepth2) ==
    IF pixelDepth1 # PixelDepth THEN "pixel depth" ELSE ""

(* The two tests of the depths of a plane: the message of the exception,   *)
(* or "" when both pass.                                                   *)
depthError(pixelDepth1, pixelDepth2) ==
    IF pixelDepth1 # pixelDepth2 THEN "pixel depths not equal"
    ELSE IF pixelDepth1 # PixelDepth THEN "pixel depth"
    ELSE ""

(* One pass of the loop over the planes: plane i. *)
readPlane(d, i, arrayRect, outer) ==
    UNION {
        IF ~a.ok \/ a.val = 0 THEN {PThrow(a.d, "not-written flag", outer)}
        ELSE UNION {
            IF ~l.ok \/ l.val = 0 THEN {PThrow(l.d, "plane length", outer)}
            ELSE LET nextPos == SETUP_OFFSET_VERIFIER(l.d, l.val)
                     scopes == <<nextPos>> \o outer
                 IN  UNION {
                    IF ~f.ok THEN {PThrow(f.d, "read", scopes)}
                    ELSE LET planeRect == QRect(f.vals[3], f.vals[2], f.vals[5], f.vals[4])
                             pixelDepth1 == f.vals[1]
                         IN  IF planeRect # arrayRect
                             THEN {PThrow(f.d, "planes are not uniform", scopes)}
                             ELSE UNION {
                                IF ~g.ok THEN {PThrow(g.d, "read", scopes)}
                                ELSE IF depthError(pixelDepth1, g.vals[1]) # ""
                                THEN {PThrow(g.d, depthError(pixelDepth1, g.vals[1]), scopes)}
                                ELSE LET dataLength == IntMul(planeRect.w, planeRect.h)
                                         useCompression == g.vals[2]
                                         done(e, bytes) ==
                                            IF Len(bytes) # dataLength
                                            THEN PThrow(e, "data plane", scopes)
                                            ELSE [ok |-> TRUE, what |-> "", scopes |-> outer,
                                                  d |-> offsetVerifierExit(deviceSeek(e, nextPos), nextPos),
                                                  bytes |-> bytes, useCompression |-> useCompression]
                                     IN  IF useCompression = Uncompressed
                                         THEN {done(r.d, IF r.got = dataLength THEN r.bytes
                                                         ELSE [k \in 1..r.got |-> 0])
                                               : r \in deviceRead(g.d, Max(dataLength, 0),
                                                                  PixelCands(i, Max(dataLength, 0)))}
                                         ELSE IF useCompression = RLE
                                         THEN UNION {
                                                IF ~s.ok THEN {PThrow(s.d, "rowSize", scopes)}
                                                ELSE {IF ~t.ok THEN t ELSE done(t.d, t.bytes)
                                                      : t \in readRows(s.d, s.vals, planeRect.w, scopes)}
                                                : s \in ReadFields(g.d,
                                                        [row \in 1..Max(planeRect.h, 0) |->
                                                            Field(2, RowSizeCands)])}
                                         ELSE {PThrow(g.d, "ZIP compression", scopes)}
                                : g \in ReadFields(f.d, <<Field(2, DepthCands),
                                                          Field(1, CompressionCands)>>)}
                    : f \in ReadFields(l.d, <<Field(4, DepthCands), Field(4, {0}), Field(4, {0}),
                                              Field(4, PlaneHeightCands(arrayRect.h)),
                                              Field(4, {arrayRect.w})>>)}
            : l \in psdread(a.d, 4, PlaneLengthCands(IntMul(arrayRect.w, arrayRect.h)))}
        : a \in psdread(d, 4, WrittenCands)}

(* dataPlanes[plane][i]: a byte read through QByteRef, which yields 0 for  *)
(* an index at or past the size of the array.                              *)
ByteAt(array, i) == IF i < Len(array) THEN array[i + 1] ELSE 0

qMin(a, b) == IF a < b THEN a ELSE b

PlaneFor(numPlanes, j) == qMin(numPlanes, j)

(* The bytes of the QImage, four for each of the w * h pixels. *)
composeImage(dataPlanes, numPlanes, arrayRect) ==
    LET dataLength == IntMul(arrayRect.w, arrayRect.h)
    IN  [k \in 1..(4 * Max(dataLength, 0)) |->
            LET i == (k - 1) \div 4
                c == (k - 1) % 4
            IN  IF c = 3 THEN 255
                ELSE ByteAt(dataPlanes[PlaneFor(numPlanes, 2 - c) + 1], i)]

----------------------------------------------------------------------------
(* State *)

NoErr == [kind |-> "none", what |-> ""]
NoCall == [op |-> "", parent |-> -1, skipKey |-> FALSE, status |-> "", tag |-> Empty,
           key |-> Empty, appended |-> 0, vs |-> <<>>, from |-> 0, val |-> 0]
NullDoc == [isNull |-> TRUE, nodes |-> <<>>]
NoRect == [x |-> 0, y |-> 0, w |-> 0, h |-> 0]
NoPat == [active |-> FALSE, start |-> 0, patternSize |-> 0, patEnd |-> 0, numPlanes |-> 0,
          name |-> Empty, uuid |-> Empty, node |-> 0, vaEnd |-> 0, arrayRect |-> NoRect,
          i |-> 0, dataPlanes |-> <<>>, compression |-> <<>>]

Init ==
    /\ family \in Families
    /\ pc = "stylesVersion"
    /\ dev = [pos |-> 0, mem |-> <<>>, size |-> Unknown]
    /\ nodes = <<>>
    /\ stack = <<>>
    /\ top = [patternsSize |-> GARBAGE_VALUE_MARK, patternsRoot |-> 0, secEnd |-> -1,
              bytesRead |-> 0, descIdx |-> 1, values |-> 0, patWarn |-> "", chunks |-> <<>>]
    /\ pat = NoPat
    /\ call = NoCall
    /\ err = NoErr
    /\ retDoc = NullDoc

(* KisAslReader::readFile.  When readFileImpl returns, its document is the *)
(* result.  When ASLParseException leaves readFileImpl, the document local *)
(* to readFileImpl is destroyed in the unwinding; readFile catches, warns  *)
(* and returns its own document, which nothing was assigned to.            *)
readFileReturn(doc) == [isNull |-> FALSE, nodes |-> doc]
(* A variant in which the document under construction survives the catch. *)
readFileCatch_keeps(doc) == readFileReturn(doc)

readFileCatch(doc) == NullDoc

(* ASLParseException thrown in readFileImpl outside the try block of the   *)
(* patterns loop.                                                          *)
ThrowOut(kind, what, doc) ==
    /\ pc' = "returned"
    /\ err' = [kind |-> kind, what |-> what]
    /\ stack' = <<>>
    /\ retDoc' = readFileCatch(doc)

(* A variant that checks only that the field was read. *)
SAFE_READ_SIGNATURE_EX_lax(d, n, V, expected) ==
    {[ok |-> r.ok, read |-> r.ok, val |-> r.val, d |-> r.d] : r \in psdread(d, n, V)}

(* SAFE_READ_SIGNATURE_EX: an outcome is ok when the field was read in     *)
(* full and holds the expected value.                                      *)
SAFE_READ_SIGNATURE_EX(d, n, V, expected) ==
    {[ok |-> (r.ok /\ r.val = expected), read |-> r.ok, val |-> r.val, d |-> r.d]
        : r \in psdread(d, n, V)}

(* A signature check of readFileImpl: on success the reader goes on at     *)
(* next, otherwise the exception leaves readFileImpl.                      *)
CheckSignature(here, name, n, V, expected, next) ==
    /\ pc = here
    /\ \E r \in SAFE_READ_SIGNATURE_EX(dev, n, V, expected) :
        /\ dev' = r.d
        /\ call' = [NoCall EXCEPT !.op = name, !.from = dev.pos, !.val = r.val,
                                  !.status = IF r.ok THEN "ok" ELSE "throw"]
        /\ IF r.ok
           THEN pc' = next /\ UNCHANGED <<err, stack, retDoc>>
           ELSE ThrowOut("signature", name, nodes)
    /\ UNCHANGED <<family, nodes, top, pat>>

ReadStylesVersion ==
    CheckSignature("stylesVersion", "stylesVersion", 2, {1, StylesVersion},
                   StylesVersion, "aslSignature")

ReadAslSignature ==
    CheckSignature("aslSignature", "aslSignature", 4, {0, RefSignature},
                   RefSignature, "patternsVersion")

ReadPatternsVersion ==
    CheckSignature("patternsVersion", "patternsVersion", 2, {2, PatternsVersion},
                   PatternsVersion, "patternsSize")

PatternsSizeCands ==
    IF family = "rgb" THEN {4 + alignOffsetCeil(RGBLen)}
    ELSE IF family = "gray" THEN {8, 4 + alignOffsetCeil(GrayLen)}
    ELSE IF family = "pair" THEN {2 * (4 + alignOffsetCeil(GrayLen))}
    ELSE {0}

PatternsRoot(off) == Element(0, S_Patterns, "List", off)

ReadPatternsSize ==
    /\ pc = "patternsSize"
    /\ \E r \in psdread(dev, 4, PatternsSizeCands) :
        /\ dev' = r.d
        /\ call' = [NoCall EXCEPT !.op = "patternsSize", !.from = dev.pos, !.val = r.val,
                                  !.status = IF r.ok THEN "ok" ELSE "throw"]
        /\ IF ~r.ok
           THEN /\ ThrowOut("read", "patternsSize", nodes)
                /\ UNCHANGED <<nodes, top>>
           ELSE IF r.val # 0
           THEN /\ pc' = "patternLoop"
                /\ nodes' = Append(nodes, PatternsRoot(dev.pos))
                /\ top' = [top EXCEPT !.patternsSize = r.val,
                                      !.patternsRoot = Len(nodes) + 1,
                                      !.secEnd = AddOff(r.d.pos, r.val),
                                      !.bytesRead = 0]
                /\ UNCHANGED <<err, stack, retDoc>>
           ELSE /\ pc' = "numStyles"
                /\ top' = [top EXCEPT !.patternsSize = r.val]
                /\ UNCHANGED <<nodes, err, stack, retDoc>>
    /\ UNCHANGED <<family, pat>>

(* A variant whose switch has a case for Bitmap that falls through to the  *)
(* single plane.                                                           *)
numPlanesOf_bitmap(mode) ==
    IF mode = Bitmap \/ mode = MultiChannel \/ mode = Grayscale THEN 1
    ELSE IF mode = RGB THEN 3
    ELSE 0

(* switch (mode): the number of planes, 0 standing for the default branch, *)
(* which throws.                                                           *)
numPlanesOf(mode) ==
    IF mode = MultiChannel \/ mode = Grayscale THEN 1
    ELSE IF mode = RGB THEN 3
    ELSE 0

(* readPattern from the size of the record to the switch over the image  *)
(* mode.                                                                   *)
readPatternHead(d) ==
    UNION {
        IF ~z.ok THEN {PThrow(z.d, "patternSize", <<>>)}
        ELSE LET patternSize == alignOffsetCeil(z.val)
                 patEnd == SETUP_OFFSET_VERIFIER(z.d, patternSize)
                 scopes == <<patEnd>>
             IN  UNION {
                IF ~v.ok THEN {PThrow(v.d, "patternVersion", scopes)}
                ELSE IF v.val # PatternVersion THEN {PThrow(v.d, "Pattern version", scopes)}
                ELSE UNION {
                    IF ~f.ok THEN {PThrow(f.d, "read", scopes)}
                    ELSE UNION {
                        {IF ~u.ok THEN PThrow(u.d, "string", scopes)
                         ELSE IF numPlanesOf(f.vals[1]) = 0
                         THEN PThrow(u.d, "Unsupported image mode", scopes)
                         ELSE [ok |-> TRUE, d |-> u.d, what |-> "", scopes |-> scopes,
                               patternSize |-> patternSize, patEnd |-> patEnd,
                               numPlanes |-> numPlanesOf(f.vals[1]),
                               name |-> n.val, uuid |-> u.val]
                         : u \in readPascalString(n.d, {1})}
                        : n \in psdread_unicodestringOf(f.d, {0})}
                    : f \in ReadFields(v.d, <<Field(4, ImageModeCands),
                                              Field(2, {1}), Field(2, {1})>>)}
                : v \in psdread(z.d, 4, PatternVersionCands)}
        : z \in psdread(d, 4, PatternSizeCands)}

(* A variant without the catch of the loop over the patterns: the          *)
(* exception leaves readFileImpl.                                          *)
PatternThrow_uncaught(o, ns, from) ==
    /\ dev' = offsetVerifierExit(ExitScopes(o.d, o.scopes), top.secEnd)
    /\ nodes' = ns
    /\ pat' = NoPat
    /\ top' = [top EXCEPT !.patWarn = o.what]
    /\ pc' = "returned"
    /\ err' = [kind |-> "read", what |-> o.what]
    /\ retDoc' = readFileCatch(ns)
    /\ call' = [NoCall EXCEPT !.op = "readPattern", !.status = "throw", !.from = from,
                              !.parent = top.patternsRoot]
    /\ UNCHANGED <<family, stack>>

(* A variant without the verifier of the section: only the scopes of the  *)
(* pattern are left.                                                       *)
PatternThrow_unverified(o, ns, from) ==
    /\ dev' = ExitScopes(o.d, o.scopes)
    /\ nodes' = ns
    /\ pat' = NoPat
    /\ top' = [top EXCEPT !.patWarn = o.what]
    /\ pc' = "numStyles"
    /\ call' = [NoCall EXCEPT !.op = "readPattern", !.status = "throw", !.from = from,
                              !.parent = top.patternsRoot]
    /\ UNCHANGED <<family, err, stack, retDoc>>

(* An ASLParseException out of readPattern: the verifier scopes open in    *)
(* it are left, the element made for the pattern goes with them, the catch *)
(* of the loop over the patterns logs the warning, and the scope of the    *)
(* section is left.  ns is the document without the pattern's element.     *)
PatternThrow(o, ns, from) ==
    /\ dev' = offsetVerifierExit(ExitScopes(o.d, o.scopes), top.secEnd)
    /\ nodes' = ns
    /\ pat' = NoPat
    /\ top' = [top EXCEPT !.patWarn = o.what]
    /\ pc' = "numStyles"
    /\ call' = [NoCall EXCEPT !.op = "readPattern", !.status = "throw", !.from = from,
                              !.parent = top.patternsRoot]
    /\ UNCHANGED <<family, err, stack, retDoc>>

(* A variant of the loop test with != for <. *)
PatternsLoopRuns_unequal(bytesRead, patternsSize) == bytesRead # patternsSize

(* A variant of the loop test with <= for <. *)
PatternsLoopRuns_inclusive(bytesRead, patternsSize) ==
    IsBig(patternsSize) \/ bytesRead <= patternsSize

(* while (bytesRead < patternsSize) *)
PatternsLoopRuns(bytesRead, patternsSize) == ULess(bytesRead, patternsSize)

(* A variant that appends the element to the list of the patterns as soon  *)
(* as it is made.                                                          *)
PatternElement_attached(off) ==
    [Element(top.patternsRoot, Empty, "Descriptor", off)
        EXCEPT !.classId = S_KisPattern, !.name = Empty]

PatternElement(off) ==
    [Element(Detached, Empty, "Descriptor", off)
        EXCEPT !.classId = S_KisPattern, !.name = Empty]

(* A pass of while (bytesRead < patternsSize): readPattern is called and   *)
(* runs up to its call of readVirtualArrayList.                            *)
ReadPatternHead ==
    /\ pc = "patternLoop"
    /\ \E o \in readPatternHead(dev) :
        IF ~o.ok THEN PatternThrow(o, nodes, dev.pos)
        ELSE /\ dev' = o.d
             /\ nodes' = Append(nodes, PatternElement(dev.pos))
             /\ pat' = [NoPat EXCEPT !.active = TRUE, !.start = dev.pos,
                                     !.patternSize = o.patternSize, !.patEnd = o.patEnd,
                                     !.numPlanes = o.numPlanes, !.name = o.name,
                                     !.uuid = o.uuid, !.node = Len(nodes) + 1,
                                     !.dataPlanes = <<Empty, Empty, Empty>>]
             /\ pc' = "vaList"
             /\ call' = [NoCall EXCEPT !.op = "readPatternHead", !.status = "ok",
                                       !.from = dev.pos, !.parent = top.patternsRoot]
             /\ UNCHANGED <<family, top, err, stack, retDoc>>

Unmade(ns) == SubSeq(ns, 1, Len(ns) - 1)

(* readVirtualArrayList up to its loop over the planes. *)
ReadVAListHead ==
    /\ pc = "vaList"
    /\ \E o \in readVirtualArrayListHead(dev, pat.numPlanes, <<pat.patEnd>>) :
        IF ~o.ok THEN PatternThrow(o, Unmade(nodes), pat.start)
        ELSE /\ dev' = o.d
             /\ pat' = [pat EXCEPT !.vaEnd = o.vaEnd, !.arrayRect = o.arrayRect]
             /\ pc' = "plane"
             /\ call' = [NoCall EXCEPT !.op = "readVirtualArrayListHead", !.status = "ok",
                                       !.from = dev.pos]
             /\ UNCHANGED <<family, nodes, top, err, stack, retDoc>>

(* One pass of for (i < numPlanes). *)
ReadPlane ==
    /\ pc = "plane"
    /\ pat.i < pat.numPlanes
    /\ \E o \in readPlane(dev, pat.i, pat.arrayRect, <<pat.vaEnd, pat.patEnd>>) :
        IF ~o.ok THEN PatternThrow(o, Unmade(nodes), pat.start)
        ELSE /\ dev' = o.d
             /\ pat' = [pat EXCEPT !.dataPlanes[pat.i + 1] = o.bytes, !.i = @ + 1,
                                    !.compression = Append(@, o.useCompression)]
             /\ pc' = IF pat.i + 1 < pat.numPlanes THEN "plane" ELSE "compose"
             /\ call' = [NoCall EXCEPT !.op = "readPlane", !.status = "ok",
                                       !.from = dev.pos, !.val = pat.i]
             /\ UNCHANGED <<family, nodes, top, err, stack, retDoc>>

(* The payload of the Data element: the pattern saved from the image, its  *)
(* name and its file name.                                                 *)
PatternData(image, rect, name, uuid) ==
    [width |-> rect.w, height |-> rect.h, bits |-> image, name |-> name,
     fileName |-> uuid \o <<46, 112, 97, 116>>]

(* A variant that leaves out the size field itself. *)
readPatternReturn_unpadded(patternSize) == patternSize

(* return sizeof(patternSize) + patternSize *)
readPatternReturn(patternSize) == AddOff(4, patternSize)

(* The planes read: readVirtualArrayList composes the image and returns,   *)
(* readPattern fills the pattern's element, appends it to the list of the  *)
(* patterns and returns the size of the record, and the loop over the      *)
(* patterns adds it to bytesRead and tests it.                             *)
FinishPattern ==
    /\ pc = "compose"
    /\ LET image == composeImage(pat.dataPlanes, pat.numPlanes, pat.arrayRect)
           d1 == offsetVerifierExit(dev, pat.vaEnd)
           p == pat.node
           made == [nodes EXCEPT ![p].parent = top.patternsRoot]
                   \o <<appendXMLNodeCommon(S_Nm, pat.name, "Text", p, pat.start),
                        appendXMLNodeCommon(S_Idnt, pat.uuid, "Text", p, pat.start),
                        [Element(p, S_Data, "KisPatternData", pat.start)
                            EXCEPT !.data = PatternData(image, pat.arrayRect,
                                                        pat.name, pat.uuid)]>>
           d2 == offsetVerifierExit(d1, pat.patEnd)
           chunk == readPatternReturn(pat.patternSize)
           bytesRead == AddOff(top.bytesRead, chunk)
           again == PatternsLoopRuns(bytesRead, top.patternsSize)
       IN  /\ nodes' = made
           /\ dev' = IF again THEN d2 ELSE offsetVerifierExit(d2, top.secEnd)
           /\ top' = [top EXCEPT !.bytesRead = bytesRead,
                                 !.chunks = Append(@, [start |-> pat.start, chunk |-> chunk,
                                                       end |-> d2.pos, node |-> p])]
           /\ pc' = IF again THEN "patternLoop" ELSE "numStyles"
           /\ call' = [NoCall EXCEPT !.op = "readPattern", !.status = "ok",
                                     !.from = pat.start, !.val = chunk,
                                     !.parent = top.patternsRoot, !.appended = 4]
           /\ pat' = [pat EXCEPT !.active = FALSE]
    /\ UNCHANGED <<family, err, stack, retDoc>>

(* numStyles and bytesToRead are read and not used. *)
ReadStylesCounts ==
    /\ pc = "numStyles"
    /\ \E a \in psdread(dev, 4, {1}) :
        IF ~a.ok
        THEN /\ dev' = a.d
             /\ ThrowOut("read", "numStyles", nodes)
        ELSE \E b \in psdread(a.d, 4, {0}) :
             /\ dev' = b.d
             /\ IF b.ok
                THEN pc' = "stylesFormatVersion" /\ UNCHANGED <<err, stack, retDoc>>
                ELSE ThrowOut("read", "bytesToRead", nodes)
    /\ call' = [NoCall EXCEPT !.op = "numStyles", !.from = dev.pos,
                              !.status = IF pc' = "returned" THEN "throw" ELSE "ok"]
    /\ UNCHANGED <<family, nodes, top, pat>>

ReadStylesFormatVersion ==
    CheckSignature("stylesFormatVersion", "stylesFormatVersion", 4,
                   {15, StylesFormatVersion}, StylesFormatVersion, "readDescriptor")

Frame(kind, node, n) == [kind |-> kind, node |-> node, i |-> 0, n |-> n]
Last(st) == st[Len(st)]
Bump(st) == [st EXCEPT ![Len(st)].i = @ + 1]
Called(ns, p) == [ns EXCEPT ![p].calls = @ + 1]

(* The loops of readDescriptor (for i < numChildren) and of the VlLs       *)
(* branch (for i < numItems), after a call of readChildObject returned:    *)
(* a loop whose counter reached its count ends, the call that ran it       *)
(* returns, and the counter of the loop around it advances.                *)
LoopRuns_inclusive(f) == IsBig(f.n) \/ f.i <= f.n
LoopRuns(f) == ULess(f.i, f.n)
RECURSIVE Settle(_)
Settle(st) ==
    IF st = <<>> THEN <<>>
    ELSE IF LoopRuns(Last(st)) THEN st
    ELSE IF Len(st) = 1 THEN <<>>
    ELSE Settle(Bump(SubSeq(st, 1, Len(st) - 1)))

(* What follows the outcome o of a call of readDescriptor by readFileImpl  *)
(* or of readChildObject by a loop; st is the stack of loops with the      *)
(* call accounted for, ns the document with it.                            *)
Continue(o, st, ns, tp) ==
    IF o.status = "throw" THEN ThrowOut("read", o.what, ns) /\ top' = tp
    ELSE IF o.status = "fatal"
    THEN /\ pc' = "aborted"
         /\ err' = [kind |-> "qFatal", what |-> o.what]
         /\ top' = tp
         /\ UNCHANGED <<stack, retDoc>>
    ELSE LET st1 == IF o.kind # ""
                    THEN Append(st, Frame(o.kind, Len(ns), o.count))
                    ELSE IF st # <<>> THEN Bump(st) ELSE st
             st2 == Settle(st1)
         IN  /\ stack' = st2
             /\ err' = err
             /\ IF st2 # <<>>
                THEN pc' = "children" /\ top' = tp /\ retDoc' = retDoc
                ELSE IF tp.descIdx = 1
                THEN /\ pc' = "stylesFormatVersion"
                     /\ top' = [tp EXCEPT !.descIdx = 2]
                     /\ retDoc' = retDoc
                ELSE /\ pc' = "returned"
                     /\ top' = tp
                     /\ retDoc' = readFileReturn(ns)

CallRecord(op, parent, skipKey, o, from) ==
    [op |-> op, parent |-> parent, skipKey |-> skipKey, status |-> o.status,
     tag |-> o.tag, key |-> o.key, appended |-> Len(o.new), vs |-> o.vs,
     from |-> from, val |-> o.count]

(* readFileImpl calls readDescriptor(device, "", &root, &doc). *)
ReadTopDescriptor ==
    /\ pc = "readDescriptor"
    /\ \E o \in readDescriptor(dev, Empty, 0, top.values, <<>>, Empty, <<>>, dev.pos) :
        /\ dev' = o.d
        /\ call' = CallRecord("readDescriptor", 0, FALSE, o, dev.pos)
        /\ nodes' = nodes \o o.new
        /\ Continue(o, <<>>, nodes \o o.new, top)
    /\ UNCHANGED <<family, pat>>

(* One pass of the loop of readDescriptor or of the VlLs branch: a call of *)
(* readChildObject, without the key for the items of a list.               *)
ReadChildObject ==
    /\ pc = "children"
    /\ stack # <<>>
    /\ LET f == Last(stack)
           skipKey == (f.kind = "List")
       IN  \E o \in readChildObject(dev, f.node, skipKey, top.values + 1, stack) :
            /\ dev' = o.d
            /\ call' = CallRecord("readChildObject", f.node, skipKey, o, dev.pos)
            /\ nodes' = Called(nodes, f.node) \o o.new
            /\ Continue(o, stack, Called(nodes, f.node) \o o.new,
                        [top EXCEPT !.values = @ + 1])
    /\ UNCHANGED <<family, pat>>

Next ==
    \/ ReadStylesVersion
    \/ ReadAslSignature
    \/ ReadPatternsVersion
    \/ ReadPatternsSize
    \/ ReadPatternHead
    \/ ReadVAListHead
    \/ ReadPlane
    \/ FinishPattern
    \/ ReadStylesCounts
    \/ ReadStylesFormatVersion
    \/ ReadTopDescriptor
    \/ ReadChildObject

Spec == Init /\ [][Next]_vars

TypeOK ==
    /\ dev.pos >= 0
    /\ Len(dev.mem) <= MaxSize
    /\ top.patternsSize >= 0

----------------------------------------------------------------------------
(* Properties *)

Decoded == pc = "returned" /\ err = NoErr
PatternNodes == {top.chunks[k].node : k \in 1..Len(top.chunks)}
InPatterns == pc = "patternLoop" \/ pc = "vaList" \/ pc = "plane" \/ pc = "compose"

(* C1, as amended: a container decoded without error whose patterns        *)
(* section has length 0 gives a tree whose root has exactly two children,  *)
(* both of type Descriptor and both without a key, so that no child of the *)
(* root is a List keyed "Patterns".                                        *)
C1_RootOfPlainContainer ==
    (Decoded /\ top.patternsSize = 0) =>
        /\ ~retDoc.isNull
        /\ Cardinality(Children(retDoc.nodes, 0)) = 2
        /\ \A c \in Children(retDoc.nodes, 0) :
            retDoc.nodes[c].type = "Descriptor" /\ retDoc.nodes[c].key = NoAttr

(* C1 as stated: moreover no element anywhere in the tree is a List keyed  *)
(* "Patterns".                                                             *)
C1_AsStated ==
    (Decoded /\ top.patternsSize = 0) =>
        /\ Cardinality(Children(retDoc.nodes, 0)) = 2
        /\ \A c \in Children(retDoc.nodes, 0) :
            retDoc.nodes[c].type = "Descriptor" /\ retDoc.nodes[c].key = NoAttr
        /\ \A i \in 1..Len(retDoc.nodes) :
            ~(retDoc.nodes[i].type = "List" /\ retDoc.nodes[i].key = S_Patterns)

(* A container without patterns decoded to the end, one of whose           *)
(* descriptors holds a list value under the key "Patterns".                *)
C1_Witness ==
    /\ Decoded /\ top.patternsSize = 0
    /\ \E i \in 1..Len(retDoc.nodes) :
        /\ retDoc.nodes[i].type = "List" /\ retDoc.nodes[i].key = S_Patterns
        /\ retDoc.nodes[i].parent # 0

RECURSIVE SumChunks(_, _)
SumChunks(cs, n) == IF n = 0 THEN 0 ELSE AddOff(SumChunks(cs, n - 1), cs[n].chunk)

(* C2: when the loop over the patterns is over and the values returned by  *)
(* readPattern for the first N records add up to the declared length of    *)
(* the section, no record was in error, N records were read, and the       *)
(* children of the "Patterns" list are N Descriptor elements of classId    *)
(* "KisPattern", one for each record, in the order of the records.         *)
C2_PatternsListed ==
    (top.patternsRoot # 0 /\ ~InPatterns) =>
        \A n \in 1..Len(top.chunks) :
            SumChunks(top.chunks, n) = top.patternsSize =>
                /\ top.patWarn = ""
                /\ n = Len(top.chunks)
                /\ Children(nodes, top.patternsRoot) = PatternNodes
                /\ Cardinality(PatternNodes) = n
                /\ \A k \in 1..n :
                    LET e == nodes[top.chunks[k].node]
                    IN  /\ e.type = "Descriptor"
                        /\ e.classId = S_KisPattern
                        /\ e.off = top.chunks[k].start
                /\ \A k, l \in 1..n :
                    k < l => /\ top.chunks[k].node < top.chunks[l].node
                             /\ top.chunks[k].start < top.chunks[l].start

(* Two records read, their sizes adding up to the length of the section,   *)
(* and the file decoded to its end.                                        *)
C2_Witness ==
    /\ Decoded
    /\ Len(top.chunks) = 2
    /\ SumChunks(top.chunks, 2) = top.patternsSize
    /\ Cardinality(Children(nodes, top.patternsRoot)) = 2

(* C3 as stated: a call of readChildObject that read a type tag other than *)
(* Objc, GlbO, VlLs, doub, UntF, TEXT, enum, long, bool ends in a fatal    *)
(* error; it never returns normally with no element appended.              *)
C3_AsStated ==
    (/\ call.op = "readChildObject"
     /\ call.tag # Empty
     /\ call.tag \notin {S_GlbO, S_Objc, S_TEXT, S_UntF, S_VlLs, S_bool, S_doub,
                         S_enum, S_long})
        => call.status = "fatal"

(* C4 as stated: the image composed from one uncompressed plane of depth 8 *)
(* has, at every pixel i, three colour bytes equal to byte i of the plane  *)
(* and a fourth byte 255.                                                  *)
C4_AsStated ==
    (/\ call.op = "readPattern" /\ call.status = "ok"
     /\ pat.numPlanes = 1
     /\ pat.compression = <<Uncompressed>>)
        => LET src == pat.dataPlanes[1]
               bits == nodes[Len(nodes)].data.bits
           IN  /\ Len(bits) = 4 * Len(src)
               /\ \A i \in 0..(Len(src) - 1) :
                    /\ bits[4 * i + 1] = src[i + 1]
                    /\ bits[4 * i + 2] = src[i + 1]
                    /\ bits[4 * i + 3] = src[i + 1]
                    /\ bits[4 * i + 4] = 255

SignatureOf(op) ==
    IF op = "stylesVersion" THEN [width |-> 2, expected |-> StylesVersion]
    ELSE IF op = "aslSignature" THEN [width |-> 4, expected |-> RefSignature]
    ELSE IF op = "patternsVersion" THEN [width |-> 2, expected |-> PatternsVersion]
    ELSE [width |-> 4, expected |-> StylesFormatVersion]

(* C5: a step that reads one of the four signatures and finds another      *)
(* value ends the decode with a signature error, having consumed no byte   *)
(* past the field and added no element; nothing is read after the decode   *)
(* ended; and each top-level descriptor is read right after a styles       *)
(* format version found equal to 16.                                       *)
C5_SignatureAborts ==
    [][/\ pc # "returned"
       /\ (/\ \/ call'.op = "stylesVersion" \/ call'.op = "aslSignature"
              \/ call'.op = "patternsVersion" \/ call'.op = "stylesFormatVersion"
           /\ call'.val # SignatureOf(call'.op).expected)
            => /\ pc' = "returned"
               /\ err'.kind = "signature"
               /\ nodes' = nodes
               /\ dev'.pos <= call'.from + SignatureOf(call'.op).width
               /\ dev'.pos >= dev.pos
       /\ call'.op = "readDescriptor"
            => /\ call.op = "stylesFormatVersion"
               /\ call.status = "ok"
               /\ call.val = StylesFormatVersion]_vars

(* The styles format version before the second descriptor read as 15: the  *)
(* decode is over, the cursor right after the field.                       *)
C5_Witness ==
    /\ pc = "returned"
    /\ err.kind = "signature"
    /\ call.op = "stylesFormatVersion"
    /\ call.val = 15
    /\ top.descIdx = 2
    /\ dev.pos = call.from + 4

(* C6: a step in which the k-th pattern record raises a parse error leaves *)
(* the decode at the read of the style count, with no error of the decode, *)
(* the k-1 elements of the records read before still the children of the   *)
(* "Patterns" list and unchanged, and no element of the failed record      *)
(* left; and no pattern record is decoded after such an error.             *)
C6_PatternErrorCaught ==
    [][/\ (call'.op = "readPattern" /\ call'.status = "throw")
            => /\ pc' = "numStyles"
               /\ err' = NoErr
               /\ retDoc' = retDoc
               /\ top'.patWarn # ""
               /\ top'.chunks = top.chunks
               /\ Children(nodes', top.patternsRoot) = PatternNodes
               /\ Cardinality(PatternNodes) = Len(top.chunks)
               /\ \A i \in PatternNodes : nodes'[i] = nodes[i]
               /\ \A i \in 1..Len(nodes') : nodes'[i].parent # Detached
       /\ top.patWarn # "" => ~InPatterns']_vars

(* The second record was in error, the first one's element is in the       *)
(* list, and the decode went on to its end: the root holds the list and    *)
(* the two descriptors.                                                    *)
C6_Witness ==
    /\ Decoded
    /\ top.patWarn # ""
    /\ Len(top.chunks) = 1
    /\ Cardinality(Children(retDoc.nodes, top.patternsRoot)) = 1
    /\ Cardinality(Children(retDoc.nodes, 0)) = 3

C8_FatalTagAborts ==
    [][/\ pc # "aborted"
       /\ (/\ call'.op = "readChildObject"
           /\ call'.tag \in {S_GlbC, S_alis, S_obj, S_tdta, S_type})
            => /\ pc' = "aborted"
               /\ err'.kind = "qFatal"
               /\ call'.status = "fatal"
               /\ call'.appended = 0
               /\ Len(nodes') = Len(nodes)
               /\ retDoc' = retDoc
               /\ retDoc.isNull]_vars

(* The tag "alis" read for an item of a list inside a descriptor. *)
C8_Witness ==
    /\ pc = "aborted"
    /\ call.tag = S_alis
    /\ call.skipKey
    /\ Len(stack) = 2

(* C9 as stated: a call of readVarString that read its length prefix and   *)
(* returned consumed 4 bytes after a prefix of 0 and n bytes after a       *)
(* prefix n > 0; a file holds fewer than 2^31 bytes, so that after a       *)
(* prefix of 2^31 or more the call raises a parse error.                   *)
C9_AsStated ==
    \A i \in 1..Len(call.vs) :
        LET r == call.vs[i]
        IN  (r.prefixRead /\ r.returned) =>
                /\ ~IsBig(r.prefix)
                /\ r.consumed = IF r.prefix = 0 THEN 4 ELSE r.prefix

Bytes(mem, a, n) == [i \in 1..n |-> mem[a + i]]

(* The elements made by readDescriptor. *)
FromDescriptor(p) ==
    /\ nodes[p].type = "Descriptor"
    /\ nodes[p].parent # Detached
    /\ (top.patternsRoot = 0 \/ nodes[p].parent # top.patternsRoot)

DescriptorsInOrder ==
    \A p \in 1..Len(nodes) :
        FromDescriptor(p) =>
            /\ nodes[p].calls = nodes[p].declared \/ ULess(nodes[p].calls, nodes[p].declared)
            /\ Cardinality(Children(nodes, p)) <= nodes[p].calls
            /\ \A c1, c2 \in Children(nodes, p) : c1 < c2 => nodes[c1].off < nodes[c2].off
            /\ \A k \in 1..Len(stack) :
                (pc = "children" /\ stack[k].node = p) =>
                    nodes[p].calls = stack[k].i + (IF k < Len(stack) THEN 1 ELSE 0)
            /\ (\A k \in 1..Len(stack) : stack[k].node # p)
                    => (pc = "aborted" \/ err # NoErr \/ nodes[p].calls = nodes[p].declared)

(* What the stream holds at a top-level descriptor. *)
InStream(e, mem) ==
    LET count == FromBE(Bytes(mem, e.off, 4))
        name == Bytes(mem, e.off + 4, 2 * count)
        at == e.off + 4 + 2 * count
        prefix == FromBE(Bytes(mem, at, 4))
        length == IF prefix = 0 THEN 4 ELSE prefix
    IN  /\ e.name = name
        /\ ~IsBig(prefix) => /\ e.classId = ToQString(Bytes(mem, at + 4, length))
                             /\ e.declared = FromBE(Bytes(mem, at + 4 + length, 4))

DescriptorsFromStream ==
    \A p \in 1..Len(nodes) :
        (FromDescriptor(p) /\ nodes[p].parent = 0) => InStream(nodes[p], dev.mem)

(* C10: the loop of a descriptor of declared count n calls readChildObject *)
(* n times when no call fails, each time with a key, and no more; the      *)
(* descriptor's element carries the name and the classId of the stream,    *)
(* and its children stand in the order of their values in the stream.      *)
C10_DescriptorChildren ==
    /\ (call.op = "readChildObject" /\ nodes[call.parent].type = "Descriptor")
            => ~call.skipKey
    /\ DescriptorsInOrder
    /\ DescriptorsFromStream

(* A named top-level descriptor of two children, decoded to the end. *)
C10_Witness ==
    /\ Decoded
    /\ \E p \in 1..Len(nodes) :
        /\ nodes[p].type = "Descriptor" /\ nodes[p].parent = 0
        /\ nodes[p].name = <<0, 65>>
        /\ nodes[p].declared = 2
        /\ nodes[p].calls = 2
        /\ Cardinality(Children(nodes, p)) = 2

----------------------------------------------------------------------------
(* The planes in the stream *)

(* Offsets in a pattern record that starts at `start` and has an empty     *)
(* name: of its virtual array list, of plane 0 and of the data of a plane  *)
(* that starts at `at`.                                                    *)
VAListAt(start) == start + 4 + HeadLen
FirstPlaneAt(start) == VAListAt(start) + VAHeadLen
PlaneDataAt(at) == at + 8 + PlaneHeadLen

Known(mem, a, n) == a + n <= Len(mem) /\ \A i \in 1..n : mem[a + i] # NoByte

(* The row sizes of a run-length plane whose data start at base, and the   *)
(* offset of the compressed bytes of row r (from 1).                       *)
RowSizeAt(mem, base, r) == FromBE(Bytes(mem, base + 2 * (r - 1), 2))
RECURSIVE RowAt(_, _, _, _)
RowAt(mem, base, h, r) ==
    IF r = 1 THEN base + 2 * h
    ELSE RowAt(mem, base, h, r - 1) + RowSizeAt(mem, base, r - 1)

(* Row r of the plane is in the stream in full and expands to exactly the  *)
(* bytes `bytes`.                                                          *)
RowExpandsTo(mem, base, h, r, bytes) ==
    /\ Known(mem, base, 2 * h)
    /\ Known(mem, RowAt(mem, base, h, r), RowSizeAt(mem, base, r))
    /\ LET out == PackBits(Bytes(mem, RowAt(mem, base, h, r), RowSizeAt(mem, base, r)))
       IN  out.ok /\ out.bytes = bytes

PlaneAccepted == call.op = "readPlane" /\ call.status = "ok"

(* C11: a plane is accepted only when it holds exactly width * height      *)
(* bytes, and a run-length plane only when every one of its rows was read  *)
(* in full and expands to exactly width bytes, which are the bytes kept    *)
(* for the row: a row that is cut short, or that expands to fewer or more  *)
(* bytes than the width, ends the pattern with a parse error.              *)
C11_RleRowsExact ==
    PlaneAccepted =>
        LET w == pat.arrayRect.w
            h == pat.arrayRect.h
            plane == pat.dataPlanes[pat.i]
        IN  /\ Len(plane) = w * h
            /\ pat.compression[pat.i] = RLE =>
                    \A r \in 1..h :
                        RowExpandsTo(dev.mem, PlaneDataAt(call.from), h, r,
                                     SubSeq(plane, (r - 1) * w + 1, r * w))

(* A plane of two rows whose first row expands to the width and whose      *)
(* second row expands to one byte more: the pattern ended with the parse   *)
(* error of the decompression.                                             *)
C11_Witness ==
    /\ call.op = "readPattern" /\ call.status = "throw"
    /\ top.patWarn = "decompress"
    /\ LET base == PlaneDataAt(FirstPlaneAt(call.from))
       IN  /\ Known(dev.mem, base, 2 * 2 + 2 + 2)
           /\ Bytes(dev.mem, base, 4) = <<0, 2, 0, 2>>
           /\ Bytes(dev.mem, base + 4, 4) = <<0, 10, 255, 10>>

----------------------------------------------------------------------------
(* The start of the patterns section: the offset after its length field. *)
SectionStart == top.secEnd - top.patternsSize

PatternReturned == call.op = "readPattern" /\ call.status = "ok"

(* C12: the value readPattern returns is 4 plus the record length of the   *)
(* stream rounded up to a multiple of 4, and it is the distance the cursor *)
(* moved during the call; whenever the loop over the patterns is about to  *)
(* call readPattern, its running total is the offset of the cursor from    *)
(* the start of the section.                                               *)
C12_ReturnIsAdvance ==
    /\ \A k \in 1..Len(top.chunks) :
            top.chunks[k].chunk = top.chunks[k].end - top.chunks[k].start
    /\ PatternReturned =>
            /\ Known(dev.mem, call.from, 4)
            /\ call.val = 4 + alignOffsetCeil(FromBE(Bytes(dev.mem, call.from, 4)))
    /\ pc = "patternLoop" => top.bytesRead = dev.pos - SectionStart

(* A record of declared length 0 was decoded in full: readPattern returned *)
(* 4, the cursor is 4 bytes after the start of the record, and the loop    *)
(* goes on with a running total of 4.                                      *)
C12_Witness ==
    /\ PatternReturned
    /\ Bytes(dev.mem, call.from, 4) = <<0, 0, 0, 0>>
    /\ call.val = 4
    /\ pc = "patternLoop"
    /\ dev.pos = call.from + 4
    /\ top.bytesRead = 4

----------------------------------------------------------------------------
(* The image mode of the record that starts at `start`, as the stream      *)
(* holds it.                                                               *)
ImageModeAt(mem, start) == FromBE(Bytes(mem, start + 8, 4))

PatternThrew(what) ==
    call.op = "readPattern" /\ call.status = "throw" /\ top.patWarn = what

(* C13: readVirtualArrayList is entered only for a record whose image mode *)
(* is Grayscale or MultiChannel, with 1 plane, or RGB, with 3 planes; the  *)
(* parse error of the image mode is raised for the other modes only, and   *)
(* it leaves the list of the patterns with the nodes of the records        *)
(* decoded before and no node of the failed record in the document.        *)
C13_PlanesOfImageMode ==
    /\ (pc = "vaList" \/ pc = "plane" \/ pc = "compose") =>
            LET mode == ImageModeAt(dev.mem, pat.start)
            IN  /\ mode = Grayscale \/ mode = MultiChannel \/ mode = RGB
                /\ (mode = Grayscale \/ mode = MultiChannel) => pat.numPlanes = 1
                /\ mode = RGB => pat.numPlanes = 3
    /\ PatternThrew("Unsupported image mode") =>
            LET mode == ImageModeAt(dev.mem, call.from)
            IN  /\ mode # Grayscale /\ mode # MultiChannel /\ mode # RGB
                /\ Children(nodes, top.patternsRoot) = PatternNodes
                /\ \A q \in 1..Len(nodes) : nodes[q].parent # Detached

(* A record of image mode Bitmap ended with the parse error of the image   *)
(* mode, the list of the patterns being empty.                             *)
C13_Witness ==
    /\ PatternThrew("Unsupported image mode")
    /\ ImageModeAt(dev.mem, call.from) = Bitmap
    /\ Children(nodes, top.patternsRoot) = {}
    /\ pc = "numStyles"

----------------------------------------------------------------------------
(* The container up to its patterns: stylesVersion, aslSignature,          *)
(* patternsVersion and patternsSize, and the length of the section as the  *)
(* stream holds it.                                                        *)
PatternsAt == 2 + 4 + 2 + 4
DeclaredPatternsSize == FromBE(Bytes(dev.mem, PatternsAt - 4, 4))

(* C14: when the section of the patterns is there, numStyles is read at    *)
(* the start of the section plus its declared length, after the loop ended *)
(* by its test and after it ended by a parse error alike.                  *)
C14_SectionEndsAtDeclaredLength ==
    (pc = "numStyles" /\ top.patternsSize # 0) =>
        /\ top.patternsSize = DeclaredPatternsSize
        /\ dev.pos = PatternsAt + DeclaredPatternsSize

(* The only record of the section failed at the version of its virtual     *)
(* array list, 48 bytes into a section of 84 bytes; numStyles is about to  *)
(* be read at the end of the section.                                      *)
C14_Witness ==
    /\ pc = "numStyles"
    /\ PatternThrew("VAList version")
    /\ call.from = PatternsAt
    /\ DeclaredPatternsSize = 4 + alignOffsetCeil(GrayLen)
    /\ Known(dev.mem, VAListAt(PatternsAt), 4)
    /\ ~Known(dev.mem, VAListAt(PatternsAt) + 4, 1)
    /\ dev.pos = PatternsAt + 4 + alignOffsetCeil(GrayLen)

----------------------------------------------------------------------------
(* The List nodes made of VlLs values: the list of the patterns is made by *)
(* readFileImpl and declares no count.                                     *)
ValueLists == {p \in 1..Len(nodes) : nodes[p].type = "List" /\ p # top.patternsRoot}

(* C15: once the decode is through, every List node made of a VlLs value   *)
(* has exactly as many children as the value declared, none of them with  *)
(* a key, while the children of a descriptor that is an element of a list  *)
(* were read with their keys.                                              *)
C15_AsStated ==
    Decoded =>
        \A p \in ValueLists :
            /\ Cardinality(Children(nodes, p)) = nodes[p].declared
            /\ \A c \in Children(nodes, p) :
                    /\ nodes[c].key = NoAttr
                    /\ nodes[c].type = "Descriptor" =>
                            \A g \in Children(nodes, c) : nodes[g].key # NoAttr

----------------------------------------------------------------------------
(* The virtual array list of the record being read, as the stream holds    *)
(* it: plane i starts where the length of plane i - 1 says that plane      *)
(* ends.                                                                   *)
U32At(mem, a) == FromBE(Bytes(mem, a, 4))
RECURSIVE PlaneAt(_, _, _)
PlaneAt(mem, va, i) ==
    IF i = 0 THEN va + VAHeadLen
    ELSE PlaneAt(mem, va, i - 1) + 8 + U32At(mem, PlaneAt(mem, va, i - 1) + 4)

(* The fields of the plane that starts at `at` pass the tests of the loop  *)
(* over the planes, the bounding box of the array being at `box`.          *)
PlaneFieldsPass(mem, at, box) ==
    /\ Known(mem, at, 8 + PlaneHeadLen)
    /\ U32At(mem, at) # 0
    /\ U32At(mem, at + 4) # 0
    /\ U32At(mem, at + 8) = PixelDepth
    /\ Bytes(mem, at + 12, 16) = Bytes(mem, box, 16)
    /\ FromBE(Bytes(mem, at + 28, 2)) = PixelDepth
    /\ LET useCompression == FromBE(Bytes(mem, at + 30, 1))
       IN  useCompression = Uncompressed \/ useCompression = RLE

(* C16: readVirtualArrayList gets to compose and return its image only for *)
(* a list of version 3 with the channel count 24, for 1 or 3 planes, each  *)
(* plane with a written flag and a length other than 0, the bounding box   *)
(* of the array, both depths 8 and the compression Uncompressed or RLE;    *)
(* the list and its planes are read where the stream places them.          *)
C16_ImageOnlyIfValid ==
    LET va == VAListAt(pat.start)
    IN  /\ pc = "vaList" => dev.pos = va
        /\ pc = "plane" => dev.pos = PlaneAt(dev.mem, va, pat.i)
        /\ pc = "compose" =>
                /\ U32At(dev.mem, va) = ArrayVersion
                /\ U32At(dev.mem, va + 24) = NumberOfChannels
                /\ pat.numPlanes = 1 \/ pat.numPlanes = 3
                /\ pat.i = pat.numPlanes
                /\ \A i \in 0..(pat.numPlanes - 1) :
                        PlaneFieldsPass(dev.mem, PlaneAt(dev.mem, va, i), va + 8)

(* The three planes of an RGB record were accepted and the image is about  *)
(* to be composed.                                                         *)
C16_Witness ==
    /\ pc = "compose"
    /\ pat.numPlanes = 3
    /\ ImageModeAt(dev.mem, pat.start) = RGB
    /\ \A i \in 0..2 : PlaneFieldsPass(dev.mem, PlaneAt(dev.mem, VAListAt(pat.start), i),
                                         VAListAt(pat.start) + 8)

----------------------------------------------------------------------------
(* C17: every value readPattern returns is at least 4, also for a record   *)
(* of declared length 0 and for one whose rounded length wraps to 0; every *)
(* call of readPattern is made with a running total below the length of    *)
(* the section, so that the calls, the one that ends in a parse error      *)
(* included, are at most the length of the section divided by 4, rounded   *)
(* up.                                                                     *)
C17_PatternsLoopBounded ==
    top.patternsRoot # 0 =>
        LET n == Len(top.chunks)
            calls == n + (IF top.patWarn # "" \/ InPatterns THEN 1 ELSE 0)
        IN  /\ \A k \in 1..n :
                    /\ top.chunks[k].chunk >= 4
                    /\ 4 * (k - 1) <= SumChunks(top.chunks, k - 1)
                    /\ ULess(SumChunks(top.chunks, k - 1), top.patternsSize)
            /\ top.bytesRead = SumChunks(top.chunks, n)
            /\ InPatterns => ULess(top.bytesRead, top.patternsSize)
            /\ ~IsBig(top.patternsSize) => 4 * calls < top.patternsSize + 4

(* A record whose declared length 0xFFFFFFFF rounds to 0 was decoded:      *)
(* readPattern returned 4 and the loop, its total at 4, calls it again.    *)
C17_Witness ==
    /\ PatternReturned
    /\ Bytes(dev.mem, call.from, 4) = <<255, 255, 255, 255>>
    /\ top.chunks[Len(top.chunks)].chunk = 4
    /\ top.bytesRead = 4
    /\ pc = "patternLoop"

----------------------------------------------------------------------------
(* The element of a record with its three children: the two Text elements  *)
(* and the Data element.                                                   *)
Complete(p) ==
    /\ Cardinality(Children(nodes, p)) = 3
    /\ \E a, b, c \in Children(nodes, p) :
            /\ nodes[a].type = "Text" /\ nodes[a].key = S_Nm
            /\ nodes[b].type = "Text" /\ nodes[b].key = S_Idnt
            /\ nodes[c].type = "KisPatternData" /\ nodes[c].key = S_Data
            /\ Len(nodes[c].data.bits) = 4 * nodes[c].data.width * nodes[c].data.height

(* C18: the children of the "Patterns" list are at all times the elements  *)
(* of the records readPattern returned for, each with its Text children    *)
(* and its data; while a record is being read its element is in no tree    *)
(* and has no child, and after a parse error of readPattern the document   *)
(* holds the list and the elements of the records returned for, and        *)
(* nothing of the failed record.                                           *)
C18_PatternAddedAtomically ==
    top.patternsRoot # 0 =>
        /\ Children(nodes, top.patternsRoot) = PatternNodes
        /\ Cardinality(PatternNodes) = Len(top.chunks)
        /\ \A p \in PatternNodes : Complete(p)
        /\ pat.active =>
                /\ nodes[pat.node].parent = Detached
                /\ Children(nodes, pat.node) = {}
        /\ (call.op = "readPattern" /\ call.status = "throw") =>
                /\ Len(nodes) = 1 + 4 * Len(top.chunks)
                /\ \A q \in 1..Len(nodes) : nodes[q].parent # Detached

(* The raster decoder ended a record, whose element had been made, with    *)
(* the parse error of the ZIP compression: the list is as before the call. *)
C18_Witness ==
    /\ PatternThrew("ZIP compression")
    /\ top.patternsRoot = 1
    /\ Len(nodes) = 1
    /\ Children(nodes, top.patternsRoot) = {}
    /\ Known(dev.mem, FirstPlaneAt(call.from), 8 + PlaneHeadLen)

----------------------------------------------------------------------------
(* C19 as stated: when the image is composed, each of the three plane      *)
(* indices used for a pixel is below the number of planes and names a      *)
(* plane buffer that holds width * height bytes.                           *)
C19_AsStated ==
    pc = "compose" =>
        \A j \in 0..2 :
            LET plane == PlaneFor(pat.numPlanes, j)
            IN  /\ plane < pat.numPlanes
                /\ Len(pat.dataPlanes[plane + 1]) = pat.arrayRect.w * pat.arrayRect.h

====
